---- MODULE Spec2Model ----
(***************************************************************************)
(* A model of tree_drawing/tree.py: the indentation-sensitive parser       *)
(* Tree.parse_python, the constructor Tree.__init__ (used by from_json and *)
(* from_python) and the layout computed by Tree.plot.                      *)
(*                                                                         *)
(* A line of text is a sequence of one-character strings.  Coordinates     *)
(* that the code divides by 2.0 are kept doubled (names ending in 2) or    *)
(* quadrupled (names ending in 4), so that all arithmetic stays integral.  *)
(***************************************************************************)
EXTENDS Integers, Sequences, FiniteSets, TLC

VARIABLES pc, input, dic, tree, layout

vars == <<pc, input, dic, tree, layout>>

(***************************************************************************)
(* Bounds of the model.                                                    *)
(***************************************************************************)
MaxLines == 4
MaxRecNodes == 4
MaxTreeNodes == 5
MaxNodeWidth == 2
MaxGapWidth == 2

\* the default node_height and gap_height of plot
DefaultNodeHeight == 20

DefaultGapHeight == 30

(***************************************************************************)
(* Characters.  Space is the set of characters Python's \s matches among   *)
(* those used here, Word the set \w matches.                               *)
(***************************************************************************)
Space == {" ", "\t", "\n"}

Word == {"a", "b", "c", "e", "f", "i", "l", "p", "q", "s", "x", "y", "z", "_"}

NoneVal == <<"None">>

Max(S) == CHOOSE m \in S : \A n \in S : n <= m

SubStr(s, from, to) == [k \in 1..(IF to >= from THEN to - from + 1 ELSE 0) |-> s[from + k - 1]]

StartsWith(s, pre) == Len(s) >= Len(pre) /\ \A k \in 1..Len(pre) : s[k] = pre[k]

\* re.search(r"^(\s*)", line).group(1): the longest whitespace prefix
IndentOf(line) ==
  LET n == Max({k \in 0..Len(line) : \A j \in 1..k : line[j] \in Space})
  IN SubStr(line, 1, n)

\* str.strip(): drop leading and trailing whitespace
Strip(s) ==
  LET nonsp == {k \in 1..Len(s) : s[k] \notin Space}
  IN IF nonsp = {} THEN <<>>
     ELSE SubStr(s, CHOOSE k \in nonsp : \A j \in nonsp : k <= j, Max(nonsp))

\* "\n".join(parts)
RECURSIVE Join(_)
Join(parts) ==
  IF parts = <<>> THEN <<>>
  ELSE IF Len(parts) = 1 THEN parts[1]
  ELSE parts[1] \o <<"\n">> \o Join(Tail(parts))

StripAll(lines) == [k \in 1..Len(lines) |-> Strip(lines[k])]

(***************************************************************************)
(* The five regular expressions of parse_python, each anchored at the      *)
(* start of the line and prefixed by the block's indentation.              *)
(***************************************************************************)
\* The group of "(.+):" matched in rest from position from: greedy .+ runs to
\* the last colon of the newline-free run starting there.  <<>> when no match.
DotPlusColon(rest, from) ==
  LET stop == {k \in from..Len(rest) : rest[k] = "\n"}
      last == IF stop = {} THEN Len(rest) ELSE (CHOOSE k \in stop : \A j \in stop : k <= j) - 1
      colons == {k \in (from + 1)..last : rest[k] = ":"}
  IN IF colons = {} THEN <<>> ELSE SubStr(rest, from, Max(colons) - 1)

\* re.search(f"^{indent}if\\b", line)
MatchIfWord(indent, line) ==
  LET pre == indent \o <<"i", "f">>
  IN /\ StartsWith(line, pre)
     /\ (Len(line) = Len(pre) \/ line[Len(pre) + 1] \notin Word)

\* re.search(f"^{indent}if\\s(.+):", line).group(1), or NoneVal
MatchIfClause(indent, line) ==
  LET pre == indent \o <<"i", "f">>
      n == Len(pre)
  IN IF StartsWith(line, pre) /\ Len(line) > n /\ line[n + 1] \in Space
        /\ DotPlusColon(line, n + 2) # <<>>
     THEN DotPlusColon(line, n + 2)
     ELSE NoneVal

\* re.search(f"^{indent}\\s+", line)
MatchBody(indent, line) ==
  StartsWith(line, indent) /\ Len(line) > Len(indent) /\ line[Len(indent) + 1] \in Space

\* re.search(f"^{indent}elif\\s+(.+):", line).group(1), or NoneVal: \s+ takes
\* as much whitespace as still lets (.+): match
MatchElifClause(indent, line) ==
  LET pre == indent \o <<"e", "l", "i", "f">>
      n == Len(pre)
      takes == {k \in 1..(Len(line) - n) :
                  /\ \A j \in 1..k : line[n + j] \in Space
                  /\ DotPlusColon(line, n + k + 1) # <<>>}
  IN IF StartsWith(line, pre) /\ takes # {}
     THEN DotPlusColon(line, n + Max(takes) + 1)
     ELSE NoneVal

\* re.search(f"^{indent}else", line)
MatchElse(indent, line) == StartsWith(line, indent \o <<"e", "l", "s", "e">>)

(***************************************************************************)
(* Tree.parse_python                                                       *)
(***************************************************************************)
\* the label given to the branch of an else line (DefaultLabel: the label
\* "<default>")
DefaultLabel == <<"<", "d", "e", "f", "a", "u", "l", "t", ">">>

ElseLabel == <<"e", "l", "s", "e">>

\* the locals before the loop
LoopInit(permeated) ==
  [permeated |-> permeated, subtrees |-> <<>>, initial_clause |-> NoneVal,
   cur_clause |-> NoneVal, cur_subtree |-> <<>>, start |-> FALSE]

\* one iteration of "for line in code"
LoopBody(st, indent, line) ==
  IF ~st.start /\ ~MatchIfWord(indent, line)
  THEN [st EXCEPT !.permeated = Append(@, line)]
  ELSE IF MatchIfClause(indent, line) # NoneVal
  THEN [st EXCEPT !.cur_clause = MatchIfClause(indent, line),
                  !.initial_clause = IF @ = NoneVal THEN MatchIfClause(indent, line) ELSE @,
                  !.start = TRUE]
  ELSE IF st.start /\ MatchBody(indent, line)
  THEN [st EXCEPT !.cur_subtree = Append(@, line)]
  ELSE IF st.start /\ MatchElifClause(indent, line) # NoneVal
  THEN [st EXCEPT !.subtrees = Append(@, [clause |-> st.cur_clause, body |-> st.cur_subtree]),
                  !.cur_clause = MatchElifClause(indent, line),
                  !.cur_subtree = <<>>]
  ELSE IF st.start /\ MatchElse(indent, line)
  THEN [st EXCEPT !.subtrees = Append(@, [clause |-> st.cur_clause, body |-> st.cur_subtree]),
                  !.cur_clause = ElseLabel,
                  !.cur_subtree = <<>>]
  ELSE st

\* the whole loop, with its else clause (the loop has no break)
RECURSIVE ForLoop(_, _, _, _)
ForLoop(code, i, indent, st) ==
  IF i > Len(code)
  THEN [st EXCEPT !.subtrees = Append(@, [clause |-> st.cur_clause, body |-> st.cur_subtree])]
  ELSE ForLoop(code, i + 1, indent, LoopBody(st, indent, code[i]))

\* The caller's accumulator after a recursive call that was handed
\* permeated[:]: the callee appended to its own copy.
SharedAccumulator(callerList, calleeList) == calleeList

CopiedAccumulator(callerList, calleeList) == callerList

\* the content of the dict returned when no clause was seen
UnstrippedContent(permeated) == Join(permeated)

LeafContent(permeated) == Join(StripAll(permeated))

RECURSIVE ParsePython(_, _)
RECURSIVE ParseSubtrees(_, _, _)

\* the list comprehension over subtrees: one recursive call per branch with a
\* non-empty body; permeated is the caller's accumulator
ParseSubtrees(subtrees, i, permeated) ==
  IF i > Len(subtrees) THEN [options |-> <<>>, permeated |-> permeated]
  ELSE IF subtrees[i].body = <<>> THEN ParseSubtrees(subtrees, i + 1, permeated)
  ELSE LET r == ParsePython(subtrees[i].body, permeated)
           rest == ParseSubtrees(subtrees, i + 1, CopiedAccumulator(permeated, r.permeated))
       IN [options |-> <<[value |-> subtrees[i].clause, tree |-> r.value]>> \o rest.options,
           permeated |-> rest.permeated]

\* parse_python(code, permeated): status "ok" with the returned dict in value,
\* or the exception raised; permeated is the accumulator object at return
ParsePython(code, permeated) ==
  IF code = <<>> THEN [status |-> "IndexError", permeated |-> permeated]
  ELSE LET indent == IndentOf(code[1])
           st == ForLoop(code, 1, indent, LoopInit(permeated))
           sub == ParseSubtrees(st.subtrees, 1, st.permeated)
       IN IF st.initial_clause # NoneVal
          THEN [status |-> "ok",
                value |-> [content |-> Strip(st.initial_clause), options |-> sub.options],
                permeated |-> sub.permeated]
          ELSE [status |-> "ok",
                value |-> [content |-> LeafContent(sub.permeated)],
                permeated |-> sub.permeated]

(***************************************************************************)
(* Tree.__init__                                                           *)
(***************************************************************************)
\* dic.get("options", [])
OptionsOf(d) == IF "options" \in DOMAIN d THEN d.options ELSE <<>>

\* str(dic.get("content", ""))
ContentOf(d) == IF "content" \in DOMAIN d THEN d.content ELSE <<>>

\* children[name] = child on an insertion-ordered dict: a new key goes last,
\* an existing key keeps its place and takes the new value
DictSet(children, name, child) ==
  IF \E k \in 1..Len(children) : children[k].name = name
  THEN [k \in 1..Len(children) |->
          IF children[k].name = name THEN [name |-> name, child |-> child] ELSE children[k]]
  ELSE Append(children, [name |-> name, child |-> child])

\* what __init__ does when building a child raised KeyError; children is the
\* part of the dict built so far
SwallowKeyError(children) == [status |-> "ok", value |-> children]

ReraiseKeyError(children) == [status |-> "KeyError"]

RECURSIVE SumWidths(_)
SumWidths(children) ==
  IF children = <<>> THEN 0 ELSE children[1].child.width + SumWidths(Tail(children))

\* self.height
TreeHeight(children) ==
  (IF children = <<>> THEN 0 ELSE Max({children[k].child.height : k \in 1..Len(children)})) + 1

\* self.width
ChildCount(children) == IF children # <<>> THEN Len(children) ELSE 1

TreeWidth(children) == IF children # <<>> THEN SumWidths(children) ELSE 1

RECURSIVE TreeInit(_)
RECURSIVE BuildChildren(_, _, _)

\* the dict comprehension over the options, from option i on
BuildChildren(options, i, children) ==
  IF i > Len(options) THEN [status |-> "ok", value |-> children]
  ELSE IF "value" \notin DOMAIN options[i] \/ "tree" \notin DOMAIN options[i]
  THEN ReraiseKeyError(children)
  ELSE LET r == TreeInit(options[i].tree)
       IN IF r.status # "ok" THEN ReraiseKeyError(children)
          ELSE BuildChildren(options, i + 1, DictSet(children, options[i].value, r.value))

\* Tree(dic): status "ok" with the object in value, or the exception raised
TreeInit(d) ==
  LET built == BuildChildren(OptionsOf(d), 1, <<>>)
  IN IF built.status # "ok" THEN [status |-> built.status]
     ELSE [status |-> "ok",
           value |-> [content |-> ContentOf(d), children |-> built.value,
                      height |-> TreeHeight(built.value), width |-> TreeWidth(built.value)]]

(***************************************************************************)
(* Tree.compute_total_width, Tree.compute_total_height and Tree.plot       *)
(***************************************************************************)
UnitTotalWidth(self, node_width, gap_width) == self.width * node_width

ComputeTotalWidth(self, node_width, gap_width) ==
  self.width * node_width + (self.width - 1) * gap_width

ComputeTotalHeight(self, node_height, gap_height) ==
  self.height * node_height + (self.height - 1) * gap_height

\* x_exit += child.compute_total_width(node_width, gap_width) + gap_width
NextXExitNoGap(x_exit, child_width, gap_width) == x_exit + child_width

NextXExit(x_exit, child_width, gap_width) == x_exit + child_width + gap_width

\* the y_init handed to a child
ChildYInit(y_init, node_height, gap_height) == y_init - node_height - gap_height

\* the label and the arrow drawn for the child called name, whose span starts
\* at x_exit and is child_width wide
Edge(name, total_width, x_init, y_init, x_exit, child_width, node_height, gap_height) ==
  LET x_label4 == total_width + 2 * x_init + 2 * x_exit + child_width
      right == x_label4 > 2 * total_width + 4 * x_init
  IN [name |-> name,
      text_x4 |-> IF right THEN x_label4 + 8 ELSE x_label4 - 8,
      text_y2 |-> -2 * node_height - gap_height + 2 * y_init,
      align |-> IF right THEN "left" ELSE "right",
      arrow_x2 |-> total_width + 2 * x_init,
      arrow_y |-> -node_height + y_init,
      arrow_dx2 |-> 2 * x_exit + child_width - (total_width + 2 * x_init),
      arrow_dy |-> -gap_height]

RECURSIVE Plot(_, _, _, _, _, _, _, _)
RECURSIVE PlotChildren(_, _, _, _, _, _, _, _, _, _)

\* the loop over self.children.items() from child i on, x_exit being the
\* loop variable: the edges drawn by this node and the calls made below it
PlotChildren(self, i, x_exit, node_width, node_height, gap_width, gap_height, x_init, y_init, path) ==
  IF i > Len(self.children) THEN [edges |-> <<>>, calls |-> <<>>]
  ELSE LET child == self.children[i].child
           child_width == ComputeTotalWidth(child, node_width, gap_width)
           e == Edge(self.children[i].name, ComputeTotalWidth(self, node_width, gap_width),
                     x_init, y_init, x_exit, child_width, node_height, gap_height)
           below == Plot(child, node_width, node_height, gap_width, gap_height,
                         x_exit, ChildYInit(y_init, node_height, gap_height), Append(path, i))
           rest == PlotChildren(self, i + 1, NextXExit(x_exit, child_width, gap_width),
                                node_width, node_height, gap_width, gap_height, x_init, y_init, path)
       IN [edges |-> <<e>> \o rest.edges, calls |-> below \o rest.calls]

\* plot(...): the calls of plot made, in order, each with its arguments, the
\* ellipse and text it adds (centre cx2/2, cy2/2) and the edges it draws;
\* path is the position of the node below the root
Plot(self, node_width, node_height, gap_width, gap_height, x_init, y_init, path) ==
  LET total_width == ComputeTotalWidth(self, node_width, gap_width)
      total_height == ComputeTotalHeight(self, node_height, gap_height)
      sub == PlotChildren(self, 1, x_init, node_width, node_height, gap_width, gap_height,
                          x_init, y_init, path)
  IN <<[path |-> path, content |-> self.content, x_init |-> x_init, y_init |-> y_init,
        total_width |-> total_width, total_height |-> total_height,
        cx2 |-> total_width + 2 * x_init, cy2 |-> -node_height + 2 * y_init,
        node_width |-> node_width, node_height |-> node_height,
        edges |-> sub.edges]>> \o sub.calls

(***************************************************************************)
(* Inputs                                                                  *)
(***************************************************************************)
\* one level of indentation
Indent4 == <<" ", " ", " ", " ">>

\* the lines that blocks of code are made of
LineSet ==
  { <<"z">>,
    <<"i", "f", " ", "a", ":">>,
    <<"i", "f", " ", "e", "l", "s", "e", ":">>,
    <<"i", "f", ":">>,
    <<"e", "l", "i", "f", " ", "b", ":">>,
    <<"e", "l", "s", "e", ":">>,
    Indent4 \o <<"x">>,
    Indent4 \o <<"y">>,
    Indent4 \o <<"i", "f", " ", "c", ":">>,
    Indent4 \o Indent4 \o <<"q">> }

\* the blocks of at most MaxLines lines handed to parse_python
Codes == UNION {[1..n -> LineSet] : n \in 0..MaxLines}

\* if / elif / else, each with one body line
Conditions == {<<"a">>, <<"b">>}

BodyLines == {Indent4 \o <<"x">>, Indent4 \o <<"y">>}

ThreeWayCodes ==
  { << <<"i", "f", " ">> \o c1 \o <<":">>, b1,
       <<"e", "l", "i", "f", " ">> \o c2 \o <<":">>, b2,
       <<"e", "l", "s", "e", ":">>, b3 >> :
    c1 \in Conditions, c2 \in Conditions, b1 \in BodyLines, b2 \in BodyLines, b3 \in BodyLines }

Labels == {<<"u">>, <<"v">>}

RECURSIVE Records(_, _)
RECURSIVE OptionSeqs(_, _)

\* the options an "options" list can hold, each subtree of at most b nodes;
\* when lax, an option may lack its "value" or its "tree" key
OptionsUpTo(b, lax) ==
  {[value |-> v, tree |-> t] : v \in Labels, t \in Records(b, lax)}
  \cup (IF lax THEN {[tree |-> t] : t \in Records(b, lax)} \cup {[value |-> v] : v \in Labels}
        ELSE {})

\* the "options" lists whose subtrees have at most b nodes in all
OptionSeqs(b, lax) ==
  {<<>>} \cup UNION { {<<o>> \o r : o \in OptionsUpTo(k, lax), r \in OptionSeqs(b - k, lax)} :
                      k \in 1..b }

\* the serialized records of at most b nodes; when lax, "content" may be
\* absent too
Records(b, lax) ==
  IF b < 1 THEN {}
  ELSE {[content |-> <<"a">>]}
       \cup (IF lax THEN {[options |-> <<>>]} ELSE {})
       \cup {[content |-> <<"a">>, options |-> s] : s \in OptionSeqs(b - 1, lax)}

NodeWidths == 1..MaxNodeWidth

GapWidths == 1..MaxGapWidth

(***************************************************************************)
(* State: the input of the run, the dict returned by parse_python or       *)
(* loaded from a file, the Tree object, and what plot has drawn.           *)
(***************************************************************************)
None == [status |-> "none"]

InitWith(inputs) ==
  /\ pc = "start"
  /\ input \in inputs
  /\ dic = None
  /\ tree = None
  /\ layout = None

PythonInput(codes) == {[kind |-> "python", code |-> c] : c \in codes}

JsonInput(records) == {[kind |-> "json", record |-> r] : r \in records}

\* Tree.parse_python(code)
ParsePythonCall ==
  /\ pc = "start"
  /\ input.kind = "python"
  /\ dic' = ParsePython(input.code, <<>>)
  /\ pc' = "parsed"
  /\ UNCHANGED <<input, tree, layout>>

\* Tree(dic) on the dict parse_python returned
TreeInitCall ==
  /\ pc = "parsed"
  /\ dic.status = "ok"
  /\ tree' = TreeInit(dic.value)
  /\ pc' = "built"
  /\ UNCHANGED <<input, dic, layout>>

\* Tree.from_python(path): the file's lines are parsed and the Tree built; an
\* exception of parse_python leaves no Tree
FromPython ==
  /\ pc = "start"
  /\ input.kind = "python"
  /\ LET r == ParsePython(input.code, <<>>)
     IN /\ dic' = r
        /\ tree' = IF r.status = "ok" THEN TreeInit(r.value) ELSE [status |-> r.status]
  /\ pc' = "built"
  /\ UNCHANGED <<input, layout>>

\* Tree.from_json(path): the record is loaded and the Tree built
FromJson ==
  /\ pc = "start"
  /\ input.kind = "json"
  /\ dic' = [status |-> "ok", value |-> input.record]
  /\ tree' = TreeInit(input.record)
  /\ pc' = "built"
  /\ UNCHANGED <<input, layout>>

\* tree.plot(node_width=..., gap_width=...) on a new figure, the heights
\* left at their defaults
PlotCall ==
  /\ pc = "built"
  /\ tree.status = "ok"
  /\ \E node_width \in NodeWidths, gap_width \in GapWidths :
       LET node_height == DefaultNodeHeight
           gap_height == DefaultGapHeight
       IN
       layout' = [status |-> "ok",
                  node_width |-> node_width, node_height |-> node_height,
                  gap_width |-> gap_width, gap_height |-> gap_height,
                  xlim |-> <<-10, ComputeTotalWidth(tree.value, node_width, gap_width)>>,
                  ylim |-> <<-ComputeTotalHeight(tree.value, node_height, gap_height), 10>>,
                  calls |-> Plot(tree.value, node_width, node_height, gap_width, gap_height,
                                 0, 0, <<>>)]
  /\ pc' = "plotted"
  /\ UNCHANGED <<input, dic, tree>>

\* parsing blocks of code
InitParse == InitWith(PythonInput(Codes))

NextParse == ParsePythonCall \/ TreeInitCall \/ FromPython

SpecParse == InitParse /\ [][NextParse]_vars

\* loading serialized records, well-formed or not
InitJson == InitWith(JsonInput(Records(MaxRecNodes, TRUE)))

NextJson == FromJson

SpecJson == InitJson /\ [][NextJson]_vars

\* laying out trees loaded from well-formed records or parsed from three-way
\* branches
InitPlot == InitWith(JsonInput(Records(MaxTreeNodes, FALSE)) \cup PythonInput(ThreeWayCodes))

NextPlot == FromJson \/ FromPython \/ PlotCall

SpecPlot == InitPlot /\ [][NextPlot]_vars

(***************************************************************************)
(* Properties of Tree.__init__                                             *)
(***************************************************************************)
\* a Tree and all the Trees below it
RECURSIVE SubTrees(_)
SubTrees(t) == {t} \cup UNION {SubTrees(t.children[k].child) : k \in 1..Len(t.children)}

RECURSIVE SumOf(_)
SumOf(ns) == IF ns = <<>> THEN 0 ELSE ns[1] + SumOf(Tail(ns))

ChildWidths(t) == [k \in 1..Len(t.children) |-> t.children[k].child.width]

ChildHeights(t) == {t.children[k].child.height : k \in 1..Len(t.children)}

\* C1: in every Tree that __init__ builds, at every nesting level, a node
\* without children has width 1 and height 1, and a node with children has
\* as width the sum of its children's widths and as height one more than the
\* greatest of its children's heights; so width and height are at least 1.
C1_WidthHeight ==
  tree.status = "ok" =>
    \A n \in SubTrees(tree.value) :
      /\ n.children = <<>> => n.width = 1 /\ n.height = 1
      /\ n.children # <<>> =>
           /\ n.width = SumOf(ChildWidths(n))
           /\ n.height = 1 + Max(ChildHeights(n))
      /\ n.width >= 1
      /\ n.height >= 1

\* a Tree three levels deep one of whose children is two wide
C1_Witness ==
  /\ pc = "built"
  /\ tree.status = "ok"
  /\ tree.value.height = 3
  /\ \E k \in 1..Len(tree.value.children) : tree.value.children[k].child.width = 2

\* some option of the record, at any depth, lacks "value" or "tree"
RECURSIVE LacksKey(_)
LacksKey(d) ==
  \E k \in 1..Len(OptionsOf(d)) :
    LET x == OptionsOf(d)[k]
    IN \/ "value" \notin DOMAIN x
       \/ "tree" \notin DOMAIN x
       \/ LacksKey(x.tree)

\* C7: building a Tree from a record in which some option, at any depth,
\* lacks its "value" or its "tree" key raises KeyError and leaves no Tree
\* object, not even a partly built one.
C7_MissingKeyRaises ==
  (pc = "built" /\ input.kind = "json" /\ LacksKey(input.record)) =>
    /\ tree.status = "KeyError"
    /\ "value" \notin DOMAIN tree

\* the key is missing one level down, after a complete option
C7_Witness ==
  /\ pc = "built"
  /\ input.kind = "json"
  /\ tree.status = "KeyError"
  /\ Len(OptionsOf(input.record)) = 2
  /\ DOMAIN input.record.options[1] = {"value", "tree"}
  /\ ~LacksKey(input.record.options[1].tree)
  /\ DOMAIN input.record.options[2] = {"value", "tree"}
  /\ LacksKey(input.record.options[2].tree)

(***************************************************************************)
(* Properties of the layout                                                *)
(***************************************************************************)
ChildTotalWidths(t, node_width, gap_width) ==
  [k \in 1..Len(t.children) |-> ComputeTotalWidth(t.children[k].child, node_width, gap_width)]

\* C8: for every node with children and all positive node_width and
\* gap_width, compute_total_width of the node is the sum of
\* compute_total_width of its children plus (number of children - 1) times
\* gap_width, compute_total_width(n) being n.width * node_width +
\* (n.width - 1) * gap_width.
C8_TotalWidthSum ==
  tree.status = "ok" =>
    \A n \in SubTrees(tree.value) : \A node_width \in NodeWidths, gap_width \in GapWidths :
      /\ ComputeTotalWidth(n, node_width, gap_width)
           = n.width * node_width + (n.width - 1) * gap_width
      /\ n.children # <<>> =>
           ComputeTotalWidth(n, node_width, gap_width)
             = SumOf(ChildTotalWidths(n, node_width, gap_width))
               + (Len(n.children) - 1) * gap_width

\* a node with two children, one of them itself two wide
C8_Witness ==
  /\ pc = "built"
  /\ tree.status = "ok"
  /\ Len(tree.value.children) = 2
  /\ tree.value.children[1].child.width = 2
  /\ tree.value.width = 3

Front(path) == SubStr(path, 1, Len(path) - 1)

CallAt(path) == CHOOSE c \in {layout.calls[k] : k \in 1..Len(layout.calls)} : c.path = path

Calls == {layout.calls[k] : k \in 1..Len(layout.calls)}

\* the glyphs of c and d, c to the left, are at least gap_width apart
LeftOf(c, d) == c.cx2 + c.node_width + 2 * layout.gap_width <= d.cx2 - d.node_width

\* C10: in the layout plot computes, for any tree and positive sizes, every
\* node's span [x_init, x_init + compute_total_width(node)] lies inside its
\* parent's span and contains the node's own glyph (centre +/- node_width/2),
\* so the glyphs of two distinct nodes at the same depth do not overlap
\* horizontally and are at least gap_width apart.
C10_SpansNested ==
  pc = "plotted" =>
    /\ \A c \in Calls :
         /\ 2 * c.x_init <= c.cx2 - c.node_width
         /\ c.cx2 + c.node_width <= 2 * (c.x_init + c.total_width)
         /\ c.path # <<>> =>
              LET parent == CallAt(Front(c.path))
              IN /\ parent.x_init <= c.x_init
                 /\ c.x_init + c.total_width <= parent.x_init + parent.total_width
    /\ \A c \in Calls, d \in Calls :
         (c.path # d.path /\ Len(c.path) = Len(d.path)) => LeftOf(c, d) \/ LeftOf(d, c)

\* two nodes at depth 2 under different parents are drawn
C10_Witness ==
  /\ pc = "plotted"
  /\ \E c \in Calls, d \in Calls :
       /\ Len(c.path) = 2
       /\ Len(d.path) = 2
       /\ c.path[1] # d.path[1]
       /\ LeftOf(c, d)

(***************************************************************************)
(* Properties of Tree.parse_python                                         *)
(***************************************************************************)
IfA == <<"i", "f", " ", "a", ":">>

IfElse == <<"i", "f", " ", "e", "l", "s", "e", ":">>

ElseLine == <<"e", "l", "s", "e", ":">>

LineX == Indent4 \o <<"x">>

LineY == Indent4 \o <<"y">>

Leaf(content) == [content |-> content, children |-> <<>>, height |-> 1, width |-> 1]

\* the Tree of ["if a:", "    x", "else:", "    y"] when the else branch is
\* labelled label
TwoWayTree(label) ==
  [content |-> <<"a">>,
   children |-> <<[name |-> <<"a">>, child |-> Leaf(<<"x">>)],
                  [name |-> label, child |-> Leaf(<<"y">>)]>>,
   height |-> 2, width |-> 2]

\* the condition texts of the primary and secondary clause lines of a block
ConditionTexts(code) ==
  {MatchIfClause(IndentOf(code[1]), code[k]) : k \in 1..Len(code)}
  \cup {MatchElifClause(IndentOf(code[1]), code[k]) : k \in 1..Len(code)}

\* a primary clause with one body line, then a default clause with one
TwoWayCodes == {<<l, LineX, ElseLine, LineY>> : l \in {IfA, IfElse}}

C6_EmptyInput ==
  (pc = "parsed" /\ input.code = <<>>) =>
    /\ dic.status = "ok"
    /\ dic.value = [content |-> <<>>]

\* the n-th smallest element of a set of numbers
NthOf(S, n) == CHOOSE x \in S : Cardinality({y \in S : y <= x}) = n

\* the lines of code at the positions in S, in order
LinesAt(code, S) == [n \in 1..Cardinality(S) |-> code[NthOf(S, n)]]

\* The clauses of a block, read off the lines: the first primary clause line
\* at the block's indentation begins the clauses; from there on every primary,
\* secondary or default line at that indentation starts a clause, whose body
\* is the deeper-indented lines up to the next clause start.
IsClauseStart(indent, line) ==
  \/ MatchIfClause(indent, line) # NoneVal
  \/ MatchElifClause(indent, line) # NoneVal
  \/ MatchElse(indent, line)

ClauseLabel(indent, line) ==
  IF MatchIfClause(indent, line) # NoneVal THEN MatchIfClause(indent, line)
  ELSE IF MatchElifClause(indent, line) # NoneVal THEN MatchElifClause(indent, line)
  ELSE <<"e", "l", "s", "e">>

Primaries(code) == {k \in 1..Len(code) : MatchIfClause(IndentOf(code[1]), code[k]) # NoneVal}

ClauseStarts(code) ==
  {k \in 1..Len(code) : /\ \E f \in Primaries(code) : f <= k
                        /\ IsClauseStart(IndentOf(code[1]), code[k])}

ClauseBody(code, k) ==
  LinesAt(code, {j \in (k + 1)..Len(code) :
                   /\ MatchBody(IndentOf(code[1]), code[j])
                   /\ \A m \in ClauseStarts(code) : ~(k < m /\ m < j)})

\* the options the clauses call for: one per clause with a non-empty body,
\* in order, holding the parse of that clause's body
ClauseOptions(code, carried) ==
  LET kept == {k \in ClauseStarts(code) : ClauseBody(code, k) # <<>>}
  IN [n \in 1..Cardinality(kept) |->
        [value |-> ClauseLabel(IndentOf(code[1]), code[NthOf(kept, n)]),
         tree |-> ParsePython(ClauseBody(code, NthOf(kept, n)), carried).value]]

\* C3: for a block with at least one clause start at its indentation,
\* parse_python returns a branch whose content is the first clause's condition
\* and whose options hold one entry per clause with a non-empty body, in
\* order: every clause-start line opens a new branch, the deeper-indented
\* lines after it up to the next clause start are that branch's body and no
\* other's, and a clause with an empty body yields no option.
C3_OneBranchPerClause ==
  (pc = "parsed" /\ dic.status = "ok" /\ Primaries(input.code) # {}) =>
    LET indent == IndentOf(input.code[1])
        first == input.code[NthOf(Primaries(input.code), 1)]
        carried == ForLoop(input.code, 1, indent, LoopInit(<<>>)).permeated
    IN dic.value = [content |-> Strip(ClauseLabel(indent, first)),
                    options |-> ClauseOptions(input.code, carried)]

\* the leaves and the branches of a returned dict
RECURSIVE DictNodes(_)
DictNodes(d) ==
  {d} \cup UNION {DictNodes(OptionsOf(d)[k].tree) : k \in 1..Len(OptionsOf(d))}

\* the lines of a text joined by "\n"; the empty text has none
RECURSIVE SplitLines(_)
SplitLines(text) ==
  IF text = <<>> THEN {}
  ELSE LET breaks == {k \in 1..Len(text) : text[k] = "\n"}
       IN IF breaks = {} THEN {text}
          ELSE {SubStr(text, 1, NthOf(breaks, 1) - 1)}
               \cup (IF NthOf(breaks, 1) = Len(text) THEN {<<>>}
                     ELSE SplitLines(SubStr(text, NthOf(breaks, 1) + 1, Len(text))))

NoIfLine(code) == \A k \in 1..Len(code) : ~MatchIfWord(IndentOf(code[1]), code[k])

\* The branches of parse_python(code, carried) as the loop finds them.
KeptBranches(code, carried) ==
  LET st == ForLoop(code, 1, IndentOf(code[1]), LoopInit(carried))
  IN [carried |-> st.permeated,
      bodies |-> LET kept == {k \in 1..Len(st.subtrees) : st.subtrees[k].body # <<>>}
                 IN [n \in 1..Cardinality(kept) |-> st.subtrees[NthOf(kept, n)].body]]

\* At every level of the recursion below (code, carried) that holds no line
\* starting with the word if, d is the leaf made of the block's lines,
\* preceded by the carried lines when withCarried.
RECURSIVE LeavesJoinBlock(_, _, _, _)
LeavesJoinBlock(code, carried, d, withCarried) ==
  IF NoIfLine(code)
  THEN d = [content |-> Join(StripAll((IF withCarried THEN carried ELSE <<>>) \o code))]
  ELSE "options" \in DOMAIN d =>
         LET b == KeptBranches(code, carried)
         IN /\ Len(d.options) = Len(b.bodies)
            /\ \A k \in 1..Len(b.bodies) :
                 LeavesJoinBlock(b.bodies[k], b.carried, d.options[k].tree, withCarried)

LineTexts(lines) == {Strip(lines[k]) : k \in 1..Len(lines)}

ConditionsOf(lines) ==
  {Strip(MatchIfClause(IndentOf(lines[k]), lines[k])) : k \in 1..Len(lines)} \ {NoneVal}

NodeFrom(n, lines) ==
  IF "options" \in DOMAIN n THEN n.content \in ConditionsOf(lines)
  ELSE SplitLines(n.content) \subseteq LineTexts(lines)

\* every node below each branch of (code, carried) is made of the carried
\* lines and of that branch's own body, at every level
RECURSIVE BranchesApart(_, _, _)
BranchesApart(code, carried, d) ==
  "options" \in DOMAIN d =>
    LET b == KeptBranches(code, carried)
    IN /\ Len(d.options) = Len(b.bodies)
       /\ \A k \in 1..Len(b.bodies) :
            /\ \A n \in DictNodes(d.options[k].tree) : NodeFrom(n, b.carried \o b.bodies[k])
            /\ BranchesApart(b.bodies[k], b.carried, d.options[k].tree)

\* C5: each sibling branch's recursive call gets its own copy of the carried
\* text: no line consumed while parsing one branch's body shows up in a node
\* below another branch, and the caller's accumulator is as the loop left it
\* when the recursive calls are done.
C5_SiblingsIndependent ==
  (pc = "parsed" /\ dic.status = "ok") =>
    /\ BranchesApart(input.code, <<>>, dic.value)
    /\ dic.permeated = KeptBranches(input.code, <<>>).carried

\* two sibling branches with different bodies after a carried line
C5_Witness ==
  /\ pc = "parsed"
  /\ dic.status = "ok"
  /\ "options" \in DOMAIN dic.value
  /\ Len(dic.value.options) = 2
  /\ dic.value.options[1].tree = [content |-> <<"x">>]
  /\ dic.value.options[2].tree = [content |-> <<"y">>]

\* the calls of plot for the children of the root, in the order made
ChildCalls == LinesAt(layout.calls, {k \in 1..Len(layout.calls) : Len(layout.calls[k].path) = 1})

\* C9: an if / elif / else block with one body line each gives a Tree of
\* width 3, and plot places the three children left to right in the order of
\* the clauses: each child's span is compute_total_width(child) wide, the
\* first starts at the parent's x_init, consecutive spans are gap_width
\* apart, each child's centre is the middle of its span and its vertical
\* origin is node_height + gap_height below the parent's, and no two
\* children overlap horizontally.
C9_ThreeWayLayout ==
  (input.kind = "python" /\ input.code \in ThreeWayCodes) =>
    /\ pc \in {"built", "plotted"} => tree.status = "ok" /\ tree.value.width = 3
    /\ pc = "plotted" =>
         LET root == layout.calls[1]
             kids == ChildCalls
         IN /\ Len(kids) = 3
            /\ \A k \in 1..3 :
                 /\ kids[k].path = <<k>>
                 /\ kids[k].content = Strip(input.code[2 * k])
                 /\ kids[k].total_width
                      = ComputeTotalWidth(tree.value.children[k].child,
                                          layout.node_width, layout.gap_width)
                 /\ kids[k].cx2 = 2 * kids[k].x_init + kids[k].total_width
                 /\ kids[k].y_init = root.y_init - layout.node_height - layout.gap_height
            /\ kids[1].x_init = root.x_init
            /\ \A k \in 1..2 :
                 /\ kids[k + 1].x_init = kids[k].x_init + kids[k].total_width + layout.gap_width
                 /\ kids[k].x_init + kids[k].total_width < kids[k + 1].x_init

====
